---- MODULE Spec2Model ----
(***************************************************************************)
(* Model of src/src/classic.rs: the classic two-colour blockies generator. *)
(*                                                                         *)
(* Classic::create_icon folds the seed bytes into the generator state      *)
(* (Seed::new), resolves the foreground and background colours, draws the  *)
(* mirrored grid through Seed::rand and hands palette, pixel buffer, width *)
(* and scale to pixelate's Image::render.                                  *)
(*                                                                         *)
(* Number representation.  The state `randseed` is an f64 holding a whole  *)
(* number below 2^53, so it is modelled by the integer itself.  Every      *)
(* other f64 of the source is modelled exactly, as a Fix: a binary         *)
(* fixed-point number of 96 digits after the point, kept in limbs of 12    *)
(* bits.  Each f64 operation of the source (+, *, /) is the exact          *)
(* operation followed by the rounding to 53 significant bits, ties to      *)
(* even (Round53); floor and the subtraction of line 91 are exact.         *)
(*                                                                         *)
(* f64::sin is the platform's routine, and Rust leaves its precision       *)
(* unspecified.  The model computes the sine to 2^-88 and takes for        *)
(* sin(x) the nearest f64, except where the sine lies within 1/16 of a     *)
(* unit in the last place of a rounding tie: there the routine may return  *)
(* either neighbour.  Which one it returns is a property of the platform:  *)
(* it is chosen when a state is first drawn from and kept in `libm` from   *)
(* then on.  States are below 2^20.                                        *)
(*                                                                         *)
(* util::create_image_data and util::hsl_to_rgb are not part of            *)
(* classic.rs; they are modelled from the specification (sections 4.2 and  *)
(* 4.3).                                                                   *)
(*                                                                         *)
(* The locals of create_icon are kept after the call returns (pc = "done") *)
(* so that properties can read them; a second call starts from fresh       *)
(* locals, except that randseed keeps its old value until Seed::new        *)
(* overwrites it.                                                          *)
(***************************************************************************)
EXTENDS Integers, Sequences, FiniteSets

\* ------------------------------------------------------------------------
\* Bounds of the model and the inputs drawn from them.
\* ------------------------------------------------------------------------
MaxSeedLen == 3

MaxSize == 3

\* Byte values the seeds are built from: zero, a low bit, all bits.
SeedBytes == {0, 1, 255}

RECURSIVE SeqsUpTo(_, _)
SeqsUpTo(S, n) ==
  IF n = 0 THEN {<<>>}
  ELSE LET shorter == SeqsUpTo(S, n - 1)
       IN  shorter \cup {Append(q, x) : q \in {r \in shorter : Len(r) = n - 1}, x \in S}

Seeds == SeqsUpTo(SeedBytes, MaxSeedLen)

Sizes == 0..MaxSize

Scales == {1, 16}

\* Option values: None, and Some(v) holding v.
None == <<>>

Some(v) == <<v>>

\* No Seed has been built yet; no result has been returned yet.
NoSeed == -1

NoResult == "none"

\* pixelate::WHITE and the fixed colours a caller may supply, as <<r, g, b>>.
WHITE == <<255, 255, 255>>

FixedColors == {Some(<<255, 0, 0>>)}

FixedBackgrounds == {Some(<<0, 0, 255>>)}

\* What Image::render may return: Ok(()) or one of pixelate's errors.
RenderErrors == {"Err(Io)", "Err(Encoding)"}

RenderResults == {"Ok"} \cup RenderErrors

\* ------------------------------------------------------------------------
\* Seed::new  (classic.rs lines 70-85)
\* ------------------------------------------------------------------------
\* a ^ b on u64, bit by bit.
RECURSIVE BitXor(_, _)
BitXor(a, b) ==
  IF a = 0 THEN b
  ELSE IF b = 0 THEN a
  ELSE ((a + b) % 2) + 2 * BitXor(a \div 2, b \div 2)

\* seed[i] with the source's 0-based index (bytes is the slice `seed`).
At(bytes, i) == bytes[i + 1]

\* The number of iterations of the loop of line 73: seed.len() / 2.
ChunkCount(bytes) == Len(bytes) \div 2

\* Line 74: h = (seed[i*2] << 8) | seed[i*2 + 1].  The two operands share no
\* bit, so the bitwise or is their sum.
Chunk(bytes, i) == At(bytes, i * 2) * 256 + At(bytes, i * 2 + 1)

\* Lines 73-76: randseed after the first n iterations of the loop.
RECURSIVE FoldChunks(_, _)
FoldChunks(bytes, n) ==
  IF n = 0 THEN 0
  ELSE BitXor(FoldChunks(bytes, n - 1), Chunk(bytes, n - 1))

\* Lines 78-80 without the shift: the leftover byte folded in as a low byte.
FoldTailUnshifted(bytes, acc) ==
  IF Len(bytes) % 2 = 1
    THEN BitXor(acc, At(bytes, Len(bytes) - 1))
    ELSE acc

\* Lines 78-80 left out: the leftover byte is ignored.
FoldTailDropped(bytes, acc) == acc

\* Lines 78-80: the leftover byte of an odd-length seed, shifted left 8 bits.
FoldTail(bytes, acc) ==
  IF Len(bytes) % 2 = 1
    THEN BitXor(acc, At(bytes, Len(bytes) - 1) * 256)
    ELSE acc

\* The 0-based indexes Seed::new reads; one outside 0 .. len-1 panics.
SeedIndexes(bytes) ==
  UNION {{i * 2, i * 2 + 1} : i \in 0..(ChunkCount(bytes) - 1)}
    \cup (IF Len(bytes) % 2 = 1 THEN {Len(bytes) - 1} ELSE {})

SeedNewPanics(bytes) == ~(SeedIndexes(bytes) \subseteq 0..(Len(bytes) - 1))

\* Lines 71-80: the u64 accumulator at the end of Seed::new.
Fold(bytes) == FoldTail(bytes, FoldChunks(bytes, ChunkCount(bytes)))

\* ------------------------------------------------------------------------
\* f64 arithmetic (classic.rs lines 88-98).
\* A Fix is a tuple of NLimbs limbs <<l1, ..., l10>> with value
\*   (l1 + l2*B + ... + l10*B^9) / B^8 ,  B = 2^12:
\* 96 binary digits after the point.  l1..l9 are in 0..B-1; l10 carries the
\* sign.  Every f64 the source computes from a state below 2^20 is a whole
\* multiple of 2^-96 and has its exact Fix.
\* ------------------------------------------------------------------------
LimbBase == 4096

LimbBits == 12

FracLimbs == 8

NLimbs == 10

Limbs == 1..NLimbs

\* The f64 significand: 53 binary digits.
MantissaBits == 53

FixZero == <<0, 0, 0, 0, 0, 0, 0, 0, 0, 0>>

\* A tuple with the elements of the function f on 1..n, each worked out once.
Forced(f) == f \o <<>>

\* a is a Fix.  Operators on Fix test their operands with it before anything
\* else, which has the operands worked out first.
IsFix(a) == Len(a) = NLimbs

\* The whole number m, 0 <= m < B.
FixInt(m) == Forced([i \in Limbs |-> IF i = FracLimbs + 1 THEN m ELSE 0])

FixOne == FixInt(1)

\* Coefficients may be negative down to -2 * (B - 1).  Adding 2 * B to every
\* limb but the last and taking 2 from the next limb up leaves the value as it
\* is and the limbs below the last non-negative.
Biased(c) ==
  [i \in 1..Len(c) |->
     c[i] + (IF i < Len(c) THEN 2 * LimbBase ELSE 0) - (IF i > 1 THEN 2 ELSE 0)]

\* One round of carries: every limb below the last keeps its low 12 bits and
\* takes the overflow of the limb below.
CarryRound(c) ==
  [i \in 1..Len(c) |->
     (IF i < Len(c) THEN c[i] % LimbBase ELSE c[i])
       + (IF i > 1 THEN c[i - 1] \div LimbBase ELSE 0)]

\* For limbs in 0 .. B: the carry into limb i is 1 when a limb below holds B
\* and every limb between holds B - 1.
CarryInto(c, i) ==
  IF \E j \in 1..(i - 1) : c[j] = LimbBase /\ \A k \in (j + 1)..(i - 1) : c[k] = LimbBase - 1
    THEN 1 ELSE 0

\* The last step of the carry propagation, for limbs in 0 .. B below the last.
CarryLast(c) ==
  Forced([i \in 1..Len(c) |->
            IF i < Len(c) THEN (c[i] + CarryInto(c, i)) % LimbBase
            ELSE c[i] + CarryInto(c, i)])

\* Carry propagation: coefficients between -2 * (B - 1) and 2^28 to the normal
\* form, limbs below the last in 0 .. B-1.  Three rounds bring every limb below
\* the last into 0 .. B; the carries left are 0 or 1.
FixNorm(c) ==
  CarryLast(Forced(CarryRound(Forced(CarryRound(Forced(CarryRound(Forced(Biased(c)))))))))

FixAdd(a, b) ==
  CASE IsFix(a) /\ IsFix(b) -> FixNorm([i \in Limbs |-> a[i] + b[i]])

FixSub(a, b) ==
  CASE IsFix(a) /\ IsFix(b) -> FixNorm([i \in Limbs |-> a[i] - b[i]])

\* a * m for a whole number 0 <= m <= 10000, exactly.
MulSmall(a, m) == CASE IsFix(a) -> FixNorm([i \in Limbs |-> a[i] * m])

\* The term a[i] * b[j] of the coefficient of B^(k-1), j = k + 1 - i.
Term(a, b, k, i) == IF k + 1 - i \in Limbs THEN a[i] * b[k + 1 - i] ELSE 0

\* The coefficient of B^(k-1) in the schoolbook product.
Conv(a, b, k) ==
  Term(a, b, k, 1) + Term(a, b, k, 2) + Term(a, b, k, 3) + Term(a, b, k, 4)
    + Term(a, b, k, 5) + Term(a, b, k, 6) + Term(a, b, k, 7) + Term(a, b, k, 8)
    + Term(a, b, k, 9) + Term(a, b, k, 10)

\* The limbs of a product, 2 * NLimbs - 1 of them from B^0 on, as a Fix: the
\* FracLimbs lowest are dropped.
DropLow(full) ==
  Forced([i \in Limbs |->
            IF i < NLimbs THEN full[i + FracLimbs]
            ELSE full[NLimbs + FracLimbs] + LimbBase * full[NLimbs + FracLimbs + 1]])

\* floor(a * b) in fixed point: schoolbook product, carries, drop FracLimbs limbs.
FixMul(a, b) ==
  CASE IsFix(a) /\ IsFix(b) ->
         DropLow(FixNorm([k \in 1..(2 * NLimbs - 1) |-> Conv(a, b, k)]))

\* The remainders of the long division of a >= 0 by m, from the top limb
\* down: the k-th is what is left once limb NLimbs + 1 - k has been divided.
RemaindersDown(a, m) ==
  LET r10 == a[10] % m
      r9  == (r10 * LimbBase + a[9]) % m
      r8  == (r9 * LimbBase + a[8]) % m
      r7  == (r8 * LimbBase + a[7]) % m
      r6  == (r7 * LimbBase + a[6]) % m
      r5  == (r6 * LimbBase + a[5]) % m
      r4  == (r5 * LimbBase + a[4]) % m
      r3  == (r4 * LimbBase + a[3]) % m
      r2  == (r3 * LimbBase + a[2]) % m
      r1  == (r2 * LimbBase + a[1]) % m
  IN  <<r10, r9, r8, r7, r6, r5, r4, r3, r2, r1>>

\* a / m for a >= 0 and a whole number 0 < m <= 100, by long division: the
\* quotient rounded down to 96 binary digits, and whether anything was left.
DivSmall(a, m) ==
  CASE IsFix(a) ->
         LET down == RemaindersDown(a, m)
         IN  [q |-> Forced([i \in Limbs |->
                              ((IF i < NLimbs THEN down[NLimbs - i] ELSE 0) * LimbBase + a[i]) \div m]),
              inexact |-> down[NLimbs] # 0]

\* The number of binary digits of a whole number v >= 0.
BitLen(v) == Cardinality({k \in 0..15 : 2 ^ k <= v})

\* The number of binary digits of a >= 0 counted from its lowest place 2^-96.
FixBits(a) ==
  LET nz == {i \in Limbs : a[i] # 0}
  IN  IF nz = {} THEN 0
      ELSE LET top == CHOOSE i \in nz : \A j \in nz : j <= i
           IN  LimbBits * (top - 1) + BitLen(a[top])

\* The cnt <= 12 binary digits of a from digit lo upwards (digit 0 is 2^-96).
BitsAt(a, lo, cnt) ==
  LET i == lo \div LimbBits + 1
      w == a[i] + (IF i < NLimbs THEN LimbBase * a[i + 1] ELSE 0)
  IN  (w \div (2 ^ (lo % LimbBits))) % (2 ^ cnt)

\* Some binary digit of a below digit lo is set.
AnyBelow(a, lo) ==
  \/ \E j \in 1..(lo \div LimbBits) : a[j] # 0
  \/ a[lo \div LimbBits + 1] % (2 ^ (lo % LimbBits)) # 0

\* a with the binary digits below digit d cleared.
TruncTo(a, d) ==
  LET i == d \div LimbBits + 1
  IN  Forced([j \in Limbs |->
                IF j < i THEN 0
                ELSE IF j = i THEN a[j] - (a[j] % (2 ^ (d % LimbBits)))
                ELSE a[j]])

\* One unit of digit d.
UnitAt(d) ==
  Forced([j \in Limbs |-> IF j = d \div LimbBits + 1 THEN 2 ^ (d % LimbBits) ELSE 0])

\* a >= 0 rounded to the nearest f64, ties to even (the rounding of every f64
\* operation); sticky says that the exact operand lies above a by less than
\* one unit of a's lowest place.
Round53(a, sticky) ==
  CASE IsFix(a) ->
         LET len == FixBits(a)
             d   == len - MantissaBits
         IN  IF len <= MantissaBits THEN a
             ELSE LET guard == BitsAt(a, d - 1, 1) = 1
                      rest  == sticky \/ AnyBelow(a, d - 1)
                      odd   == BitsAt(a, d, 1) = 1
                  IN  IF guard /\ (rest \/ odd)
                        THEN FixAdd(TruncTo(a, d), UnitAt(d))
                        ELSE TruncTo(a, d)

RoundNearest(a) == Round53(a, FALSE)

\* <<sin(2^k), cos(2^k)>> for k = 0 .. 19, rounded down to 96 binary digits.
SinCosPow2 == <<
  << <<2313, 3742, 198, 1794, 2151, 1924, 2724, 3446, 0, 0>>,
     <<3479, 1126, 450, 1481, 2100, 2010, 320, 2213, 0, 0>> >>,
  << <<3136, 576, 3420, 751, 3490, 1384, 1975, 3724, 0, 0>>,
     <<1233, 1053, 3891, 3798, 567, 2603, 1894, 2391, 4095, -1>> >>,
  << <<1327, 1021, 2443, 2247, 3850, 273, 561, 996, 4095, -1>>,
     <<3729, 753, 3273, 3997, 1753, 3218, 2767, 1418, 4095, -1>> >>,
  << <<898, 1413, 4017, 3444, 1659, 20, 1685, 4052, 0, 0>>,
     <<2197, 3590, 310, 3470, 2464, 2067, 130, 3500, 4095, -1>> >>,
  << <<3919, 1869, 4015, 518, 892, 3560, 3063, 2916, 4095, -1>>,
     <<3027, 3072, 2533, 1556, 3716, 180, 1748, 173, 4095, -1>> >>,
  << <<2899, 1520, 690, 727, 811, 2209, 2636, 2258, 0, 0>>,
     <<3563, 726, 1909, 668, 3911, 2094, 4009, 3416, 0, 0>> >>,
  << <<1201, 2884, 3046, 3133, 1550, 2328, 1747, 3768, 0, 0>>,
     <<2428, 3335, 1245, 3069, 1379, 1622, 193, 1605, 0, 0>> >>,
  << <<3241, 550, 1942, 2518, 2467, 1692, 1517, 2953, 0, 0>>,
     <<953, 3638, 3972, 2791, 350, 533, 3681, 1257, 4095, -1>> >>,
  << <<2360, 3936, 310, 658, 3094, 4025, 998, 3, 4095, -1>>,
     <<3597, 975, 3018, 326, 2470, 3382, 69, 3933, 4095, -1>> >>,
  << <<1469, 2542, 3041, 3317, 1636, 3891, 2898, 325, 0, 0>>,
     <<1269, 1306, 1420, 437, 3846, 3627, 3974, 12, 4095, -1>> >>,
  << <<3530, 1817, 1235, 2705, 766, 982, 2651, 3446, 4095, -1>>,
     <<507, 1202, 2731, 3008, 1901, 3773, 820, 4044, 0, 0>> >>,
  << <<2654, 3268, 1388, 1951, 2160, 3588, 2942, 2813, 4095, -1>>,
     <<729, 1086, 1677, 3205, 1205, 319, 458, 3890, 0, 0>> >>,
  << <<3073, 2001, 343, 2383, 1263, 3814, 1418, 1660, 4095, -1>>,
     <<3543, 468, 3623, 1565, 1651, 755, 596, 3293, 0, 0>> >>,
  << <<177, 3803, 1039, 3601, 2488, 1971, 2108, 179, 4095, -1>>,
     <<2702, 2358, 1594, 1167, 3250, 1082, 1295, 1199, 0, 0>> >>,
  << <<1158, 3134, 1213, 371, 3456, 1698, 2015, 1802, 4095, -1>>,
     <<881, 270, 3455, 1009, 145, 3371, 1326, 702, 4095, -1>> >>,
  << <<3664, 2475, 1819, 476, 1591, 502, 2046, 3800, 0, 0>>,
     <<502, 685, 3168, 693, 1885, 2118, 2266, 1527, 0, 0>> >>,
  << <<108, 1405, 4091, 2463, 3112, 2477, 2867, 2834, 0, 0>>,
     <<2981, 1154, 2379, 2625, 1723, 1915, 1494, 1139, 4095, -1>> >>,
  << <<3297, 3989, 2123, 2078, 2378, 631, 2580, 3, 4095, -1>>,
     <<2580, 3297, 1277, 2688, 1605, 2863, 1654, 172, 0, 0>> >>,
  << <<1924, 540, 2416, 1190, 454, 931, 2038, 3751, 4095, -1>>,
     <<3908, 1820, 2000, 2976, 3639, 1081, 2102, 14, 4095, -1>> >>,
  << <<1640, 3153, 2647, 3171, 507, 3474, 2307, 686, 0, 0>>,
     <<784, 1718, 2693, 3377, 831, 869, 204, 4038, 0, 0>> >> >>

\* <<sin 0, cos 0>>.
SinCosZero == <<FixZero, FixOne>>

\* The angle addition: <<sin(u + v), cos(u + v)>> from p = <<sin u, cos u>>
\* and q = <<sin v, cos v>>.
AngleSum(p, q) ==
  IF p = SinCosZero THEN q
  ELSE IF q = SinCosZero THEN p
  ELSE << FixAdd(FixMul(p[1], q[2]), FixMul(p[2], q[1])),
          FixSub(FixMul(p[2], q[2]), FixMul(p[1], q[1])) >>

\* Bit k of the whole number x (k = 1 is the lowest).
StateBit(x, k) == (x \div (2 ^ (k - 1))) % 2

\* The number of binary digits of a state.
StateBits == 20

\* <<sin y, cos y>> for the number y made of the bits lo..hi of x: the two
\* halves of the range, added.
RECURSIVE SinCosBits(_, _, _)
SinCosBits(x, lo, hi) ==
  IF lo = hi
    THEN IF StateBit(x, lo) = 1 THEN SinCosPow2[lo] ELSE SinCosZero
    ELSE AngleSum(SinCosBits(x, lo, (lo + hi) \div 2),
                  SinCosBits(x, (lo + hi) \div 2 + 1, hi))

\* <<sin x, cos x>> for a whole number 0 <= x < 2^20.
SinCos(x) == SinCosBits(x, 1, StateBits)

\* The sine of a whole-number state below 2^20, to within 2^-88.
SinExact(x) == SinCos(x)[1]

IsNegative(a) == a[NLimbs] < 0

Negated(a) == FixSub(FixZero, a)

\* The width of the band around a rounding tie, as a power of two of the unit
\* in the last place: within 1/16 of the tie, sin may round either way.
TieBandBits == 4

\* The magnitude a > 0 of a sine rounded to f64: the f64 nearest to a, or,
\* when a lies within the band around a tie, the f64 on either side.
MagnitudeRoundings(a) ==
  CASE IsFix(a) ->
         LET d   == FixBits(a) - MantissaBits
             t   == BitsAt(a, d - TieBandBits, TieBandBits)
             tie == 2 ^ (TieBandBits - 1)
         IN  IF t \in {tie - 1, tie} THEN {TruncTo(a, d), FixAdd(TruncTo(a, d), UnitAt(d))}
             ELSE IF t > tie THEN {FixAdd(TruncTo(a, d), UnitAt(d))}
             ELSE {TruncTo(a, d)}

\* The f64 values the platform's sin may return for the sine e.  The routine
\* is accurate to better than 1/2 + 1/16 unit in the last place: it returns
\* the f64 nearest to the sine, except that within 1/16 unit of a tie it may
\* return either neighbour.  A sine of at most 53 digits is an f64 as it is.
RoundingsOf(e) ==
  CASE IsFix(e) ->
         IF IsNegative(e) THEN {Negated(v) : v \in MagnitudeRoundings(Negated(e))}
         ELSE IF FixBits(e) <= MantissaBits THEN {e}
         ELSE MagnitudeRoundings(e)

\* f64::sin of the state x (line 88): the values it may return.
SinRoundings(x) == RoundingsOf(SinExact(x))

\* ------------------------------------------------------------------------
\* Seed::rand  (classic.rs lines 87-92)
\* ------------------------------------------------------------------------
\* The most draws one call makes: three for the colour, then the grid's.
MaxDraws == 3 + MaxSize * ((MaxSize + 1) \div 2)

\* Every state a call on a seed of Seeds can draw from.
DrawStates == {Fold(s) + k : s \in Seeds, k \in 0..MaxDraws}

\* SinRoundings worked out once for every state of DrawStates.
SinTable == [x \in DrawStates |-> SinRoundings(x)]

\* Line 88, self.randseed.sin(): the f64 values sin may return in state x.
sin(x) == IF x \in DOMAIN SinTable THEN SinTable[x] ELSE SinRoundings(x)

\* The f64 x / 2.0 of an f64 x >= 0: exact.
Halved(a) == DivSmall(a, 2).q

\* The digits after the point of a >= 0: a - a.floor(), exact in f64.
FracPart(a) ==
  CASE IsFix(a) -> Forced([i \in Limbs |-> IF i <= FracLimbs THEN a[i] ELSE 0])

\* a.floor() of a >= 0, as an integer.
IntPart(a) == a[FracLimbs + 1] + LimbBase * a[NLimbs]

\* Lines 88, 90, 91 on the value sn of sin: n = (sn + 1.0) / 2.0,
\* r = n * 10000.0 and the result r - r.floor().
RandValue(sn) ==
  LET n == Halved(RoundNearest(FixAdd(sn, FixOne)))
      r == RoundNearest(MulSmall(n, 10000))
  IN  FracPart(r)

\* RandValue worked out once for every value sin may take in a state of DrawStates.
RandTable == [x \in DrawStates |-> [sn \in SinTable[x] |-> RandValue(sn)]]

\* Line 89 left out: the state stays where it is.
NextStateStuck(x) == x

\* Line 89: self.randseed += 1.0.
NextState(x) == x + 1

\* Seed::rand as a function of the state before the call and of the value sn
\* that sin returns in it: the value returned and the state left behind.
rand(x, sn) ==
  [value    |-> IF x \in DOMAIN RandTable /\ sn \in DOMAIN RandTable[x]
                  THEN RandTable[x][sn] ELSE RandValue(sn),
   randseed |-> NextState(x)]

\* The closure of line 43: || seed.rand() >= 0.5, on a value of rand.
AtLeastHalf(v) == v[FracLimbs] >= LimbBase \div 2

\* ------------------------------------------------------------------------
\* Seed::create_color  (classic.rs lines 94-101)
\* ------------------------------------------------------------------------
\* Line 96: (rand * 360.0).floor(), in degrees.
Hue(v) == IntPart(RoundNearest(MulSmall(v, 360)))

\* The f64 a / m of an f64 a >= 1 and a whole number m <= 100.
DivRound(a, m) == LET dv == DivSmall(a, m) IN Round53(dv.q, dv.inexact)

\* Line 97: (rand * 50.0 + 50.0) / 100.0.
Saturation(v) ==
  DivRound(RoundNearest(FixAdd(RoundNearest(MulSmall(v, 50)), FixInt(50))), 100)

\* Line 98: (rand * 60.0 + 20.0) / 100.0.
Lightness(v) ==
  DivRound(RoundNearest(FixAdd(RoundNearest(MulSmall(v, 60)), FixInt(20))), 100)

\* ------------------------------------------------------------------------
\* util::hsl_to_rgb: the standard HSL -> RGB formula, h in degrees, s and l
\* taken in millionths; each channel rounded to a byte.
\* ------------------------------------------------------------------------
Micro == 1000000

\* floor(a * 10^6) of a Fix a in [0, 1].
ToMicro(a) == IntPart(MulSmall(MulSmall(a, 1000), 1000))

\* floor(a * b / 10^6) for a, b in 0 .. 10^6, without leaving 32 bits.
MulMicro(a, b) == ((a \div 1000) * b + ((a % 1000) * b) \div 1000) \div 1000

hue_to_rgb(p, q, deg) ==
  LET t == IF deg < 0 THEN deg + 360 ELSE IF deg > 360 THEN deg - 360 ELSE deg
  IN  IF t < 60 THEN p + ((q - p) * t) \div 60
      ELSE IF t < 180 THEN q
      ELSE IF t < 240 THEN p + ((q - p) * (240 - t)) \div 60
      ELSE p

percent_to_byte(v) == (v * 255 + Micro \div 2) \div Micro

hsl_to_rgb(h, sat, lum) ==
  LET s == ToMicro(sat)
      l == ToMicro(lum)
      q == IF l < Micro \div 2 THEN l + MulMicro(l, s) ELSE l + s - MulMicro(l, s)
      p == 2 * l - q
  IN  << percent_to_byte(hue_to_rgb(p, q, h + 120)),
         percent_to_byte(hue_to_rgb(p, q, h)),
         percent_to_byte(hue_to_rgb(p, q, h - 120)) >>

\* ------------------------------------------------------------------------
\* util::create_image_data(size, rand): the mirrored grid, row-major.
\* ------------------------------------------------------------------------
\* The width of a row: size rounded up to the next even number.
DataWidth(n) == n + (n % 2)

\* The draws of one row: half the width, rounded up.
HalfWidth(n) == (DataWidth(n) + 1) \div 2

\* A finished row from its drawn half: the draw of column c also fills
\* column width-1-c.
MirrorRow(drawn, w) ==
  [c \in 1..w |-> IF c <= Len(drawn) THEN drawn[c] ELSE drawn[w + 1 - c]]

\* The index a drawn boolean puts in the buffer: 1 selects the foreground.
PixelIndex(b) == IF b THEN 1 ELSE 0

\* ------------------------------------------------------------------------
\* State: a Classic, and one call of create_icon on it at a time.
\* ------------------------------------------------------------------------
VARIABLES
  size, scale, color, background_color,  \* the fields of Classic
  seed,              \* the seed argument of the call
  pc,                \* where the call stands
  randseed,          \* Seed.randseed
  libm,              \* the platform's sin, for the states drawn from so far
  s0,                \* the state Seed::new left (history)
  hsl,               \* the fields of the HSL literal evaluated so far
  fg, bg,            \* the locals color and background_color
  palette,           \* the local palette
  half,              \* create_image_data: the draws of the row being built
  pixels,            \* create_image_data: the finished rows, row-major
  events,            \* every draw and every renderer invocation of the call, in order (history)
  rendered,          \* the Image handed to render
  renderResult,      \* what render returned
  result,            \* what create_icon returned
  run,               \* 1 for the first call on the Classic, 2 for the second
  first              \* what the first call did, kept for comparison (history)

vars == <<size, scale, color, background_color, seed, pc, randseed, libm, s0,
          hsl, fg, bg, palette, half, pixels, events, rendered, renderResult,
          result, run, first>>

config == <<size, scale, color, background_color>>

\* ------------------------------------------------------------------------
\* Classic::create_icon  (classic.rs lines 36-51)
\* ------------------------------------------------------------------------
\* A static accumulator that Seed::new would not reset between calls.
Seed_new_static(s) == BitXor(IF randseed = NoSeed THEN 0 ELSE randseed, Fold(s))

\* Seed::new(seed).randseed; `randseed as f64` is exact below 2^53.
Seed_new(s) == Fold(s)

\* Line 39 with unwrap_or: the argument is evaluated whatever the option holds.
DerivesColorEagerly(c) == TRUE

\* Line 39: unwrap_or_else runs seed.create_color() only on None.
DerivesColor(c) == c = None

\* Line 48 without the widening.
WidthUnwidened(n) == n

\* Line 48: the width given to the renderer.
Width(n) == n + (n % 2)

\* Line 42 with the entries the other way round.
PaletteSwapped(background, foreground) == <<foreground, background>>

\* Line 42: vec![background_color, color].
Palette(background, foreground) == <<background, foreground>>

\* Lines 45-50 with the renderer's result dropped.
ReturnedOk(r) == "Ok"

\* Lines 45-50: the value of the call is the value of render, as it is.
Returned(r) == r

Draw(use) == [kind |-> "draw", use |-> use, state |-> randseed]

\* The values sin may return in state x on this platform: the one it has
\* returned there before, or, the first time, any of sin(x).
SinChoices(x) == IF x \in DOMAIN libm THEN {libm[x]} ELSE sin(x)

\* libm once sin has returned sn in state x.
Learned(x, sn) == [y \in DOMAIN libm \cup {x} |-> IF y = x THEN sn ELSE libm[y]]

\* The locals of a call that has not started.
FreshLocals ==
  /\ hsl = <<>> /\ fg = None /\ bg = None /\ palette = None
  /\ half = <<>> /\ pixels = <<>> /\ events = <<>>
  /\ rendered = None /\ renderResult = NoResult /\ result = NoResult

Init ==
  /\ size \in Sizes
  /\ scale \in Scales
  /\ color \in {None} \cup FixedColors
  /\ background_color \in {None} \cup FixedBackgrounds
  /\ seed = <<>>
  /\ pc = "idle"
  /\ randseed = NoSeed
  /\ libm = <<>>
  /\ s0 = NoSeed
  /\ FreshLocals
  /\ run = 1
  /\ first = None

\* The caller invokes create_icon(writer, s).
Call(s) ==
  /\ pc = "idle"
  /\ seed' = s
  /\ pc' = "new"
  /\ UNCHANGED <<config, randseed, libm, s0, hsl, fg, bg, palette, half, pixels,
                 events, rendered, renderResult, result, run, first>>

\* Line 37: let mut seed = Seed::new(seed).
NewSeed ==
  /\ pc = "new"
  /\ IF SeedNewPanics(seed)
       THEN pc' = "panic" /\ UNCHANGED <<randseed, s0>>
       ELSE /\ randseed' = Seed_new(seed)
            /\ s0' = randseed'
            /\ pc' = "color"
  /\ UNCHANGED <<config, seed, libm, hsl, fg, bg, palette, half, pixels, events,
                 rendered, renderResult, result, run, first>>

\* Line 39, color is Some and the closure is not called.
UseColor ==
  /\ pc = "color"
  /\ ~DerivesColor(color)
  /\ fg' = color[1]
  /\ pc' = "background"
  /\ UNCHANGED <<config, seed, randseed, libm, s0, hsl, bg, palette, half,
                 pixels, events, rendered, renderResult, result, run, first>>

\* Lines 39 and 96: create_color evaluates h.
DrawHue ==
  /\ pc = "color"
  /\ DerivesColor(color)
  /\ \E sn \in SinChoices(randseed) :
       LET d == rand(randseed, sn)
       IN  /\ hsl' = <<Hue(d.value)>>
           /\ randseed' = d.randseed
           /\ libm' = Learned(randseed, sn)
  /\ events' = Append(events, Draw("hue"))
  /\ pc' = "sat"
  /\ UNCHANGED <<config, seed, s0, fg, bg, palette, half, pixels, rendered,
                 renderResult, result, run, first>>

\* Line 97: create_color evaluates s.
DrawSaturation ==
  /\ pc = "sat"
  /\ \E sn \in SinChoices(randseed) :
       LET d == rand(randseed, sn)
       IN  /\ hsl' = Append(hsl, Saturation(d.value))
           /\ randseed' = d.randseed
           /\ libm' = Learned(randseed, sn)
  /\ events' = Append(events, Draw("saturation"))
  /\ pc' = "light"
  /\ UNCHANGED <<config, seed, s0, fg, bg, palette, half, pixels, rendered,
                 renderResult, result, run, first>>

\* Lines 98-100 and 39: create_color evaluates l and converts; unwrap_or...
\* keeps the caller's colour when there is one.
DrawLightness ==
  /\ pc = "light"
  /\ \E sn \in SinChoices(randseed) :
       LET d == rand(randseed, sn)
           l == Lightness(d.value)
       IN  /\ hsl' = Append(hsl, l)
           /\ randseed' = d.randseed
           /\ libm' = Learned(randseed, sn)
           /\ fg' = IF color = None THEN hsl_to_rgb(hsl[1], hsl[2], l) ELSE color[1]
  /\ events' = Append(events, Draw("lightness"))
  /\ pc' = "background"
  /\ UNCHANGED <<config, seed, s0, bg, palette, half, pixels, rendered,
                 renderResult, result, run, first>>

\* Lines 40 and 42: the background colour, then the palette.
ResolveBackground ==
  /\ pc = "background"
  /\ bg' = IF background_color = None THEN WHITE ELSE background_color[1]
  /\ palette' = Palette(bg', fg)
  /\ pc' = "pixels"
  /\ UNCHANGED <<config, seed, randseed, libm, s0, hsl, fg, half, pixels,
                 events, rendered, renderResult, result, run, first>>

\* Line 43, one call of the closure by create_image_data: a draw, written to
\* its column and the mirror column once the half row is complete.
DrawCell ==
  /\ pc = "pixels"
  /\ Len(pixels) < DataWidth(size) * size
  /\ \E sn \in SinChoices(randseed) :
       LET d     == rand(randseed, sn)
           drawn == Append(half, AtLeastHalf(d.value))
           row   == MirrorRow(drawn, DataWidth(size))
       IN  /\ randseed' = d.randseed
           /\ libm' = Learned(randseed, sn)
           /\ IF Len(drawn) = HalfWidth(size)
                THEN /\ pixels' = pixels \o [c \in 1..DataWidth(size) |-> PixelIndex(row[c])]
                     /\ half' = <<>>
                ELSE /\ half' = drawn
                     /\ UNCHANGED pixels
  /\ events' = Append(events, Draw("grid"))
  /\ UNCHANGED <<config, seed, pc, s0, hsl, fg, bg, palette, rendered,
                 renderResult, result, run, first>>

\* Line 43: create_image_data returns the buffer.
FinishPixels ==
  /\ pc = "pixels"
  /\ Len(pixels) = DataWidth(size) * size
  /\ pc' = "render"
  /\ UNCHANGED <<config, seed, randseed, libm, s0, hsl, fg, bg, palette, half,
                 pixels, events, rendered, renderResult, result, run, first>>

\* Lines 45-50: the Image is built and rendered; its result is returned.
Render(r) ==
  /\ pc = "render"
  /\ rendered' = Some([palette |-> palette, pixels |-> pixels,
                       width |-> Width(size), scale |-> scale])
  /\ events' = Append(events, [kind |-> "render", use |-> "render", state |-> randseed])
  /\ renderResult' = r
  /\ result' = Returned(r)
  /\ pc' = "done"
  /\ UNCHANGED <<size, scale, color, background_color, seed, randseed, libm,
                 s0, hsl, fg, bg, palette, half, pixels, run, first>>

\* The caller sets the public colour fields (or leaves them) and calls
\* create_icon a second time with the same seed.
CallAgain(c, b) ==
  /\ pc = "done"
  /\ run = 1
  /\ first' = Some([color |-> color, background_color |-> background_color,
                    s0 |-> s0, events |-> events, rendered |-> rendered[1]])
  /\ color' = c
  /\ background_color' = b
  /\ run' = 2
  /\ pc' = "new"
  /\ hsl' = <<>> /\ fg' = None /\ bg' = None /\ palette' = None
  /\ half' = <<>> /\ pixels' = <<>> /\ events' = <<>>
  /\ rendered' = None /\ renderResult' = NoResult /\ result' = NoResult
  /\ UNCHANGED <<size, scale, seed, randseed, libm, s0>>

Next ==
  \/ \E s \in Seeds : Call(s)
  \/ NewSeed
  \/ UseColor
  \/ DrawHue
  \/ DrawSaturation
  \/ DrawLightness
  \/ ResolveBackground
  \/ DrawCell
  \/ FinishPixels
  \/ \E r \in RenderResults : Render(r)
  \/ \E c \in {None} \cup FixedColors, b \in {None} \cup FixedBackgrounds : CallAgain(c, b)

Spec == Init /\ [][Next]_vars

\* ------------------------------------------------------------------------
\* Vocabulary of the properties.
\* ------------------------------------------------------------------------
\* Seed::new has run in the current call.
SeedBuilt == pc \notin {"idle", "new", "panic"}

DrawEvents == SelectSeq(events, LAMBDA e : e.kind = "draw")

GridDraws == SelectSeq(events, LAMBDA e : e.kind = "draw" /\ e.use = "grid")

ColourDraws == SelectSeq(events, LAMBDA e : e.kind = "draw" /\ e.use # "grid")

RenderEvents == SelectSeq(events, LAMBDA e : e.kind = "render")

\* A state that has been drawn from.
Drawn(x) == x \in DOMAIN libm

\* The value rand has returned in the state x.
ValueDrawnAt(x) == rand(x, libm[x]).value

\* The boolean a draw made in state x has yielded, as a palette index: 1 when
\* the value lies in the upper half of [0, 1); -1 when no draw was made in x.
IndexDrawnAt(x) ==
  IF ~Drawn(x) THEN -1
  ELSE IF ValueDrawnAt(x)[FracLimbs] * 2 >= LimbBase THEN 1 ELSE 0

\* size rounded up to even, written without Width or DataWidth.
EvenWidth(n) == IF n % 2 = 1 THEN n + 1 ELSE n

\* The buffer of a grid of n rows whose draws start in state x: cell (rr, cc)
\* holds the draw number rr * (w/2) + min(cc, w-1-cc).
ExpectedPixels(x, n) ==
  LET w == EvenWidth(n)
  IN  [i \in 1..(n * w) |->
         LET rr == (i - 1) \div w
             cc == (i - 1) % w
             mm == IF cc < w - 1 - cc THEN cc ELSE w - 1 - cc
         IN  IndexDrawnAt(x + rr * (w \div 2) + mm)]

\* Bit j of v.
BitOf(v, j) == (v \div (2 ^ j)) % 2

\* The 16-bit words Seed::new folds: the big-endian pairs, and for an odd
\* length the last byte as a high byte.
WordsOf(b) ==
  [i \in 1..((Len(b) + 1) \div 2) |->
     IF 2 * i <= Len(b) THEN b[2 * i - 1] * 256 + b[2 * i] ELSE b[2 * i - 1] * 256]

RECURSIVE SumTo(_, _)
SumTo(f, n) == IF n = 0 THEN 0 ELSE f[n] + SumTo(f, n - 1)

\* The exclusive or of the words of b: bit j is the parity of the words with bit j.
XorOfWords(b) ==
  LET ws == WordsOf(b)
  IN  SumTo([jj \in 1..16 |->
               (2 ^ (jj - 1)) * (Cardinality({i \in 1..Len(ws) : BitOf(ws[i], jj - 1) = 1}) % 2)],
            16)

SameConfigAsFirst ==
  /\ color = first[1].color
  /\ background_color = first[1].background_color

SecondDone == run = 2 /\ pc = "done"

\* ------------------------------------------------------------------------
\* Properties.
\* ------------------------------------------------------------------------
\* C1: determinism.  A second call with the same seed and the same
\* configuration builds the same Seed state, makes the same draws in the same
\* order and hands the renderer the same palette, pixels, width and scale as
\* the first: nothing of the first call survives into the second.  (The two
\* calls run on one platform: sin is the same function in both.)
C1_Determinism ==
  (SecondDone /\ SameConfigAsFirst) =>
    /\ s0 = first[1].s0
    /\ events = first[1].events
    /\ rendered[1] = first[1].rendered

C1_Witness ==
  /\ SecondDone /\ SameConfigAsFirst
  /\ color = None /\ size >= 2 /\ Len(seed) >= 2 /\ s0 > 0
  /\ \E x \in DOMAIN libm : Cardinality(sin(x)) = 2

\* C2: Seed::new leaves the exclusive or of the big-endian byte pairs of the
\* seed, with the last byte of an odd-length seed folded in as a high byte;
\* the empty seed and all-zero seeds give 0; no seed makes it panic.
C2_SeedFold ==
  /\ pc # "panic"
  /\ SeedBuilt =>
       /\ s0 = XorOfWords(seed)
       /\ (\A i \in 1..Len(seed) : seed[i] = 0) => s0 = 0

C2_Witness ==
  /\ pc = "color"
  /\ Len(seed) = 3 /\ seed[1] = 1 /\ seed[2] = 255 /\ seed[3] = 255
  /\ s0 = 65279

\* C3 as claimed: with both colours supplied no colour draw is made and the
\* grid equals the grid of the same seed and size with a derived colour.
C3_GridsIdentical ==
  (SecondDone /\ first[1].color = None /\ color # None /\ background_color # None) =>
    /\ ColourDraws = <<>>
    /\ rendered[1].pixels = first[1].rendered.pixels

\* C3 as amended: with both colours supplied no colour draw is made and the
\* grid is the one drawn from the states s0, s0+1, ...; with a derived colour
\* the grid of the same seed and size is the one drawn from s0+3, s0+4, ...
C3_OverrideGrid ==
  (SecondDone /\ first[1].color = None /\ color # None /\ background_color # None) =>
    /\ ColourDraws = <<>>
    /\ s0 = first[1].s0
    /\ \A k \in 1..Len(GridDraws) : GridDraws[k].state = s0 + k - 1
    /\ rendered[1].pixels = ExpectedPixels(s0, size)
    /\ first[1].rendered.pixels = ExpectedPixels(s0 + 3, size)

C3_Witness ==
  /\ SecondDone /\ first[1].color = None /\ color # None /\ background_color # None
  /\ size >= 2
  /\ rendered[1].pixels # first[1].rendered.pixels

\* The seed of the call without its last byte.
SeedPrefix == SubSeq(seed, 1, Len(seed) - 1)

\* The values rand may return in state x.
RandOutcomes(x) == {rand(x, sn).value : sn \in sin(x)}

\* Some draw among the first MaxDraws + 1 differs between the states x and y,
\* whichever way sin rounds.
SomeDrawDiffers(x, y) ==
  \E k \in 0..MaxDraws : RandOutcomes(x + k) \cap RandOutcomes(y + k) = {}

\* C4 as claimed: an even-length seed and the same seed with one more byte
\* give different initial states and differ in some draw.
C4_ParityAlwaysDiffers ==
  (SeedBuilt /\ Len(seed) % 2 = 1) =>
    /\ s0 # Seed_new(SeedPrefix)
    /\ SomeDrawDiffers(s0, Seed_new(SeedPrefix))

\* C4 as amended: they differ, in the initial state and in some draw, when
\* the extra byte is not zero; an extra zero byte leaves the initial state,
\* and with it every draw, as it was.
C4_ParityNonZero ==
  (SeedBuilt /\ Len(seed) % 2 = 1) =>
    LET x == seed[Len(seed)]
        p == Seed_new(SeedPrefix)
    IN  /\ x # 0 => (s0 # p /\ SomeDrawDiffers(s0, p))
        /\ x = 0 => s0 = p

C4_Witness ==
  /\ SeedBuilt /\ Len(seed) = 3 /\ seed[3] = 255
  /\ s0 # Seed_new(SeedPrefix)

\* The number of colour draws the configuration calls for.
ColourDrawCount == IF color = None THEN 3 ELSE 0

\* C5: with no colour supplied the first three draws are hue, saturation and
\* lightness, made in the states s0, s0+1, s0+2, and every later draw is a
\* grid draw, so the first grid boolean comes from s0+3; with a colour
\* supplied every draw is a grid draw and the first comes from s0.  The
\* background colour changes neither the number nor the order of the draws.
C5_DrawOrder ==
  /\ SeedBuilt =>
       /\ \A i \in 1..Len(DrawEvents) :
            /\ DrawEvents[i].state = s0 + i - 1
            /\ DrawEvents[i].use =
                 IF color # None \/ i > 3 THEN "grid"
                 ELSE IF i = 1 THEN "hue"
                 ELSE IF i = 2 THEN "saturation"
                 ELSE "lightness"
       /\ Len(GridDraws) > 0 => GridDraws[1].state = s0 + ColourDrawCount
       /\ Len(pixels) > 0 => pixels[1] = IndexDrawnAt(s0 + ColourDrawCount)
  /\ (SecondDone /\ color = first[1].color) => events = first[1].events

C5_Witness ==
  /\ SecondDone /\ color = None /\ first[1].color = None
  /\ background_color # first[1].background_color
  /\ size >= 2
  /\ Len(ColourDraws) = 3 /\ Len(GridDraws) >= 2

\* The Image handed to the renderer, read as a grid: row rr, column cc (from 0).
CellAt(img, rr, cc) == img.pixels[rr * img.width + cc + 1]

\* C6: the grid handed to the renderer is mirrored left-right in every row at
\* the renderer's width; a row takes ceil(width/2) draws, and the draw for
\* column cc, turned into the boolean (draw >= 0.5), is in column cc and in
\* column width-1-cc.
C6_Mirror ==
  pc = "done" =>
    LET img == rendered[1]
        w   == img.width
        hw  == (w + 1) \div 2
    IN  /\ Len(GridDraws) = size * hw
        /\ \A rr \in 0..(size - 1) : \A cc \in 0..(w - 1) :
             CellAt(img, rr, cc) = CellAt(img, rr, w - 1 - cc)
        /\ \A rr \in 0..(size - 1) : \A cc \in 0..(hw - 1) :
             /\ CellAt(img, rr, cc) = IndexDrawnAt(GridDraws[rr * hw + cc + 1].state)
             /\ CellAt(img, rr, w - 1 - cc) = IndexDrawnAt(GridDraws[rr * hw + cc + 1].state)

C6_Witness ==
  /\ pc = "done" /\ size = 3
  /\ CellAt(rendered[1], 0, 0) # CellAt(rendered[1], 0, 1)
  /\ CellAt(rendered[1], 0, 0) = CellAt(rendered[1], 0, 3)

\* C7: the width given to the renderer is size + (size mod 2): even, 8 for
\* size 7 and for size 8; the buffer given with it has width * size entries,
\* that is size rows, and none for size 0.
C7_Width ==
  /\ Width(7) = 8 /\ Width(8) = 8
  /\ pc = "done" =>
       /\ rendered[1].width = EvenWidth(size)
       /\ rendered[1].width % 2 = 0
       /\ Len(rendered[1].pixels) = rendered[1].width * size
       /\ size = 0 => rendered[1].pixels = <<>>

C7_Witness ==
  /\ pc = "done" /\ size = 3
  /\ rendered[1].width = 4 /\ Len(rendered[1].pixels) = 12

\* The colour create_color has derived from the draws made in x, x+1, x+2.
DerivedColour(x) ==
  IF Drawn(x) /\ Drawn(x + 1) /\ Drawn(x + 2)
    THEN hsl_to_rgb(Hue(ValueDrawnAt(x)), Saturation(ValueDrawnAt(x + 1)),
                    Lightness(ValueDrawnAt(x + 2)))
    ELSE None

\* C8: the renderer gets a palette of two entries, background first and
\* foreground second; the background is the caller's or white, the
\* foreground the caller's or the colour derived from the seed; a cell is 1
\* when its draw was >= 0.5 and 0 otherwise, rows one after the other.
C8_Palette ==
  pc = "done" =>
    LET img == rendered[1]
    IN  /\ Len(img.palette) = 2
        /\ img.palette[1] = IF background_color = None THEN WHITE ELSE background_color[1]
        /\ img.palette[2] = IF color = None THEN DerivedColour(s0) ELSE color[1]
        /\ img.pixels = ExpectedPixels(s0 + ColourDrawCount, size)
        /\ img.scale = scale

C8_Witness ==
  /\ pc = "done" /\ color = None /\ background_color # None
  /\ rendered[1].palette[1] = <<0, 0, 255>>
  /\ rendered[1].palette[2] # rendered[1].palette[1]
  /\ \E i, j \in 1..Len(pixels) : rendered[1].pixels[i] = 1 /\ rendered[1].pixels[j] = 0

\* C9: every draw reads the state and leaves it one higher: after k draws the
\* state is s0 + k and the k-th draw (from 0) was made in s0 + k; at the end
\* of a call the state is s0 + 3 * [color is None] + size * ceil(width / 2).
C9_StateAdvance ==
  SeedBuilt =>
    /\ randseed = s0 + Len(DrawEvents)
    /\ \A k \in 1..Len(DrawEvents) : DrawEvents[k].state = s0 + (k - 1)
    /\ pc = "done" =>
         randseed = s0 + ColourDrawCount + size * ((EvenWidth(size) + 1) \div 2)

C9_Witness ==
  /\ pc = "done" /\ color = None /\ size = 3
  /\ randseed = s0 + 9

\* C10: the renderer is invoked once per call, after the colours are resolved
\* and the whole buffer is built, and nothing is drawn afterwards; the call
\* returns what the renderer returned, Ok or the same error; nothing before
\* the renderer fails.
C10_RenderOnce ==
  /\ pc # "panic"
  /\ Len(RenderEvents) = (IF pc = "done" THEN 1 ELSE 0)
  /\ \A i \in 1..Len(events) : events[i].kind = "render" => i = Len(events)
  /\ pc = "done" =>
       /\ rendered # None
       /\ Len(rendered[1].palette) = 2
       /\ \A i \in 1..2 : Len(rendered[1].palette[i]) = 3
       /\ Len(rendered[1].pixels) = size * EvenWidth(size)
       /\ renderResult \in RenderResults
       /\ result = renderResult
  /\ pc # "done" => (rendered = None /\ result = NoResult)

C10_Witness ==
  /\ pc = "done" /\ renderResult = "Err(Io)" /\ result = "Err(Io)"
  /\ size >= 1 /\ Len(DrawEvents) >= 1

====
